---- MODULE Spec2Model ----
(***************************************************************************)
(* Model of ethoscope's Monitor (src/src/ethoscope/core/monitor.py): the   *)
(* constructor, the run loop with its thread-pool tracking phase, the      *)
(* aggregation into the last-positions map, the writer / drawer sinks and  *)
(* the external stop request (specification Spec, and SpecRerun where      *)
(* run() is called again after stop()); of the interactors of              *)
(* src/src/ethoscope/tracking/interactors.py (SpecInteractor); and of      *)
(* MySQLdbConverter.copy_database of                                       *)
(* src/node_src/ethoscope_node/utils/mysql_db_converter.py (SpecCopy).     *)
(***************************************************************************)
EXTENDS Integers, Sequences, FiniteSets, TLC

\* ---------------------------------------------------------------- bounds
MaxRois == 2        \* longest ROI / stimulator list handed to the constructor
MaxRuns == 2        \* most calls of run() on one Monitor
MaxFrames == 2      \* most frames the camera yields before it is exhausted
Timestamps == {0, 1500}   \* frame timestamps (ms) the camera may report

\* ------------------------------------------------------ program constants
PoolSize == 4       \* Pool(4)

NoList == <<0>>                      \* the argument None where a list is expected
NoStimulator == 0                    \* TrackingUnit built with interactor None
NoRoi == 0                           \* sink call that is not about one ROI
NoExc == <<>>                        \* no exception
NeverStopped == [phase |-> "never", frame |-> -1]
NoFrame == -1                        \* no TrackerFrame has been made yet
RoiIds == 1..MaxRois                 \* roi.idx values
Frames == 0..(MaxFrames - 1)         \* enumerate() indices of pulled frames

\* the ROI lists a caller may pass: roi.idx is unique within a list, and the
\* list is in ascending or in descending order of idx
Ascending(n) == [i \in 1..n |-> i]
Descending(n) == [i \in 1..n |-> n + 1 - i]
RoiLists == {Ascending(n) : n \in 0..MaxRois} \cup {Descending(n) : n \in 0..MaxRois}

\* the stimulator lists a caller may pass: distinct objects, named by their
\* place in the caller's list
Stimulator(i) == 10 + i
StimLists == {[i \in 1..m |-> Stimulator(i)] : m \in 0..MaxRois}

\* values of one entry of the last-positions dict
Absent == [key |-> FALSE]            \* key not in the dict
Empty == [len |-> 0]                 \* the empty list stored for zero rows

VARIABLES
    rois,            \* constructor argument rois (None or a list)
    stimulators,     \* constructor argument stimulators (None or a list)
    ctor,            \* "pending", "ok", or the exception __init__ raised
    unit_trackers,   \* self._unit_trackers
    last_positions,  \* self._last_positions
    last_frame_idx,  \* self._last_frame_idx
    last_time_stamp, \* self._last_time_stamp
    force_stop,      \* self._force_stop
    is_running,      \* self._is_running
    pc,              \* position of the thread executing run()
    writer,          \* run(result_writer=...) is not None
    drawer,          \* run(drawer=...) is not None
    pulled,          \* frames the camera iterator has yielded so far
    t,               \* loop variable t of the current frame
    task,            \* pool tasks: [frame][unit] -> state of trackerFrame.run
    res,             \* what track returned: [frame][unit] -> outcome, kept
                     \* for the current and the previous frame
    mapError,        \* first failed task of the current map call
    j,               \* position of the aggregation loop in trackingResults
    thrown,          \* exception raised inside the try block
    exc,             \* exception leaving run()
    runResult,       \* "none", "returned", "raised"
    calls,           \* sink calls made for the current and the previous
                     \* frame, in order
    stopAt,          \* whether stop() was first called during a tracking phase
    trackerFrame,    \* trackerFrame.t of the TrackerFrame made for the frame
    handed,          \* per unit, the t of its latest track(t, frame) call
    runs,            \* the calls of run() so far, and for the latest one whether
                     \* the stop flag was set and how many frames the camera
                     \* had yielded when it was called
    outOfOrder,      \* in the present map call a unit's task has ended before
                     \* the task of a unit earlier in the list
    \* ---- one interactor object (tracking/interactors.py) and its tracker
    kind,            \* class of the interactor: "SleepDep", "IsMoving", "Async"
    channel,         \* self._channel
    tracker,         \* self._tracker is not None
    nrec,            \* len(self._tracker.positions)
    positions,       \* self._tracker.positions[-2:], the entries _run reads
    times,           \* self._tracker.times[-2:]
    t0,              \* self._t0
    last_active,     \* self._last_active
    target,          \* self._target is not None
    subprocess,      \* self._subprocess: 0 is the Process() of the class
                     \* attribute, n > 0 the n-th process the object started
    alive,           \* the started processes that have not exited yet
    ipc,             \* position of the thread executing __call__
    decision,        \* (interact, result) of the invocation in progress
    ret,             \* outcome of the last finished invocation
    hw,              \* sd_interface.deprive: calls made, call in progress,
                     \* outcome of the last call
    evals,           \* how evaluations and appended records have alternated,
                     \* the act decisions of the present stationary run and
                     \* the timestamp of the latest act decision
    \* ---- MySQLdbConverter.copy_database (utils/mysql_db_converter.py):
    \* one data table of the input database and of the output database
    inRows,          \* rows of the table in the input database, in order
    inEpoch,         \* METADATA date_time of the input database
    outRows,         \* rows of the table in the output database, in order
    outExists,       \* the output database has the table
    outEpoch,        \* METADATA date_time of the output database
    cpc,             \* position of the thread executing copy_database
    cursor,          \* rows select.execute() has still to yield
    bulkRows,        \* bulkRows
    last             \* the latest copy_database call: its outcome, what it
                     \* found in the output and what its select returned

vars == <<rois, stimulators, ctor, unit_trackers, last_positions,
          last_frame_idx, last_time_stamp, force_stop, is_running, pc,
          writer, drawer, pulled, t, task, res, mapError, j, thrown, exc,
          runResult, calls, stopAt, trackerFrame, handed, runs, outOfOrder,
          kind, channel, tracker, nrec, positions, times, t0, last_active,
          target, subprocess, alive, ipc, decision, ret, hw, evals,
          inRows, inEpoch, outRows, outExists, outEpoch, cpc, cursor,
          bulkRows, last>>

monitorVars == <<last_positions, last_frame_idx, last_time_stamp,
                 is_running>>
ctorVars == <<rois, stimulators, ctor, unit_trackers>>
poolVars == <<task, res, mapError>>
excVars == <<thrown, exc, runResult>>
frameVars == <<trackerFrame, handed>>
trackVars == <<frameVars, runs, outOfOrder>>
interactorVars == <<kind, channel, tracker, nrec, positions, times, t0,
                    last_active, target, subprocess, alive, ipc, decision,
                    ret, hw, evals>>
\* what no operation of Monitor touches
copyVars == <<inRows, inEpoch, outRows, outExists, outEpoch, cpc, cursor,
              bulkRows, last>>
otherVars == <<interactorVars, copyVars>>
allMonitorVars == <<ctorVars, monitorVars, force_stop, pc, writer, drawer,
                    pulled, t, poolVars, j, excVars, calls, stopAt, trackVars>>

NUnits == Len(unit_trackers)
Units == 1..NUnits
cur == pulled - 1                    \* enumerate() index i of the current frame

\* TrackingUnit.get_last_positions(absolute=True) after a track call that
\* produced rows: the position of unit u's ROI measured on frame k
AbsPos(roi, k) == [roi |-> roi, frame |-> k]

\* TrackingUnit(tracker_class, r, inter)
TrackingUnit(r, inter) == [roi |-> r, stimulator |-> inter]

MonitorInit ==
    /\ rois \in {NoList} \cup RoiLists
    /\ stimulators \in {NoList} \cup StimLists
    /\ ctor = "pending"
    /\ unit_trackers = <<>>
    /\ last_positions = [r \in RoiIds |-> Absent]
    /\ last_frame_idx = 0
    /\ last_time_stamp = 0
    /\ force_stop = FALSE
    /\ is_running = FALSE
    /\ pc = "new"
    /\ writer = FALSE
    /\ drawer = FALSE
    /\ pulled = 0
    /\ t = 0
    /\ task = [k \in Frames |-> [u \in 1..MaxRois |-> "none"]]
    /\ res = [k \in Frames |-> [u \in 1..MaxRois |-> "none"]]
    /\ mapError = NoExc
    /\ j = 0
    /\ thrown = NoExc
    /\ exc = NoExc
    /\ runResult = "none"
    /\ calls = <<>>
    /\ stopAt = NeverStopped
    /\ trackerFrame = NoFrame
    /\ handed = [u \in 1..MaxRois |-> NoFrame]
    /\ outOfOrder = FALSE
    /\ runs = [n |-> 0, stopped |-> FALSE, from |-> 0]

\* ------------------------------------------------------------ __init__
\* variant: the lists are zipped without comparing their lengths
CtorOutcomeNoLengthCheck(rs, st) ==
    IF rs = NoList THEN "NotImplementedError" ELSE "ok"

\* variant: rois is not tested for None
CtorOutcomeNoNoneCheck(rs, st) ==
    IF st = NoList THEN "ok"
    ELSE IF Len(st) = Len(rs) THEN "ok"
    ELSE "ValueError"

\* the outcome of the checks of __init__
CtorOutcome(rs, st) ==
    IF rs = NoList THEN "NotImplementedError"
    ELSE IF st = NoList THEN "ok"
    ELSE IF Len(st) = Len(rs) THEN "ok"
    ELSE "ValueError"

Min(a, b) == IF a <= b THEN a ELSE b

\* zip(rois, stimulators): as long as the shorter list
Zip(rs, st) == [i \in 1..Min(Len(rs), Len(st)) |-> <<rs[i], st[i]>>]

\* the list comprehension(s) building self._unit_trackers
MakeUnits(rs, st) ==
    IF st = NoList THEN [i \in 1..Len(rs) |-> TrackingUnit(rs[i], NoStimulator)]
    ELSE [i \in 1..Len(Zip(rs, st)) |->
             TrackingUnit(Zip(rs, st)[i][1], Zip(rs, st)[i][2])]

Construct ==
    /\ pc = "new"
    /\ ctor' = CtorOutcome(rois, stimulators)
    /\ IF ctor' = "ok"
         THEN /\ unit_trackers' = MakeUnits(rois, stimulators)
              /\ pc' = "idle"
         ELSE /\ unit_trackers' = unit_trackers
              /\ pc' = "no_monitor"
    /\ UNCHANGED otherVars
    /\ UNCHANGED trackVars
    /\ UNCHANGED <<rois, stimulators, monitorVars, force_stop, writer, drawer,
                   pulled, t, poolVars, j, excVars, calls, stopAt>>

\* ---------------------------------------------------------------- stop()
Stop ==
    /\ ctor = "ok"
    /\ force_stop' = TRUE
    /\ stopAt' = IF force_stop THEN stopAt
                 ELSE IF pc = "map" THEN [phase |-> "tracking", frame |-> cur]
                 ELSE [phase |-> "other", frame |-> -1]
    /\ UNCHANGED otherVars
    /\ UNCHANGED trackVars
    /\ UNCHANGED <<ctorVars, monitorVars, pc, writer, drawer, pulled, t,
                   poolVars, j, excVars, calls>>

\* ------------------------------------------------------------------ run()
\* logging.info(...); self._is_running = True; the iterator is created
Run ==
    /\ pc = "idle"
    /\ is_running' = TRUE
    /\ writer' \in BOOLEAN
    /\ drawer' \in BOOLEAN
    /\ pc' = "pull"
    /\ runs' = [n |-> 1, stopped |-> force_stop, from |-> pulled]
    /\ UNCHANGED otherVars
    /\ UNCHANGED <<frameVars, outOfOrder>>
    /\ UNCHANGED <<ctorVars, last_positions, last_frame_idx, last_time_stamp,
                   force_stop, pulled, t, poolVars, j, excVars, calls, stopAt>>

\* for i,(t, frame) in enumerate(self._camera): the camera yields a frame
PullFrame ==
    /\ pc = "pull"
    /\ pulled < MaxFrames
    /\ pulled' = pulled + 1
    /\ t' \in Timestamps
    /\ pc' = "check"
    /\ UNCHANGED otherVars
    /\ UNCHANGED trackVars
    /\ UNCHANGED <<ctorVars, monitorVars, force_stop, writer, drawer,
                   poolVars, j, excVars, calls, stopAt>>

\* the camera iterator is exhausted: the for loop ends
PullExhausted ==
    /\ pc = "pull"
    /\ pc' = "finally"
    /\ UNCHANGED otherVars
    /\ UNCHANGED trackVars
    /\ UNCHANGED <<ctorVars, monitorVars, force_stop, writer, drawer, pulled,
                   t, poolVars, j, excVars, calls, stopAt>>

\* the camera raises while producing the next frame
PullRaise ==
    /\ pc = "pull"
    /\ thrown' = <<"CameraError">>
    /\ pc' = "except"
    /\ UNCHANGED otherVars
    /\ UNCHANGED trackVars
    /\ UNCHANGED <<ctorVars, monitorVars, force_stop, writer, drawer, pulled,
                   t, poolVars, j, exc, runResult, calls, stopAt>>

\* if self._force_stop: break
CheckStop ==
    /\ pc = "check"
    /\ force_stop
    /\ pc' = "finally"
    /\ UNCHANGED otherVars
    /\ UNCHANGED trackVars
    /\ UNCHANGED <<ctorVars, monitorVars, force_stop, writer, drawer, pulled,
                   t, poolVars, j, excVars, calls, stopAt>>

\* variant: the stop flag is not looked at
SetCountersIgnoreStop ==
    /\ pc = "check"
    /\ last_frame_idx' = cur
    /\ pc' = "settime"
    /\ UNCHANGED otherVars
    /\ UNCHANGED trackVars
    /\ UNCHANGED <<ctorVars, last_positions, last_time_stamp, is_running,
                   force_stop, writer, drawer, pulled, t, poolVars, j, excVars,
                   calls, stopAt>>

\* the stop flag is not set: self._last_frame_idx = i
SetCounters ==
    /\ pc = "check"
    /\ ~force_stop
    /\ last_frame_idx' = cur
    /\ pc' = "settime"
    /\ UNCHANGED otherVars
    /\ UNCHANGED trackVars
    /\ UNCHANGED <<ctorVars, last_positions, last_time_stamp, is_running,
                   force_stop, writer, drawer, pulled, t, poolVars, j, excVars,
                   calls, stopAt>>

\* self._last_time_stamp = t
SetTimeStamp ==
    /\ pc = "settime"
    /\ last_time_stamp' = t
    /\ pc' = "dispatch"
    /\ UNCHANGED otherVars
    /\ UNCHANGED trackVars
    /\ UNCHANGED <<ctorVars, last_positions, last_frame_idx, is_running,
                   force_stop, writer, drawer, pulled, t, poolVars, j, excVars,
                   calls, stopAt>>

\* variant: the property hands out the stored milliseconds as they are
LastTimeStampRaw == [whole |-> last_time_stamp, thousandths |-> 0]

\* the property last_time_stamp: self._last_time_stamp / 1e3, in seconds,
\* as whole seconds and thousandths
LastTimeStampSeconds ==
    [whole |-> last_time_stamp \div 1000, thousandths |-> last_time_stamp % 1000]

\* the record of the frames before the previous one is dropped when the
\* tracking of a frame starts
Recent(k) == k >= cur - 1
RecentResults ==
    [k \in Frames |-> IF Recent(k) THEN res[k] ELSE [u \in 1..MaxRois |-> "none"]]
IsRecentCall(c) == Recent(c.frame)
RecentCalls == SelectSeq(calls, IsRecentCall)

\* variant: the dict is rebuilt for every frame before the tracking starts
DispatchResetPositions ==
    /\ pc = "dispatch"
    /\ task' = [task EXCEPT ![cur] =
                  [u \in 1..MaxRois |-> IF u \in Units THEN "queued" ELSE "none"]]
    /\ mapError' = NoExc
    /\ last_positions' = [r \in RoiIds |-> Absent]
    /\ res' = RecentResults
    /\ calls' = RecentCalls
    /\ pc' = "map"
    /\ UNCHANGED otherVars
    /\ trackerFrame' = t
    /\ outOfOrder' = FALSE
    /\ UNCHANGED <<handed, runs>>
    /\ UNCHANGED <<ctorVars, last_frame_idx, last_time_stamp, is_running,
                   force_stop, writer, drawer, pulled, t, j, excVars, stopAt>>

\* variant: the TrackerFrame of the frame before is used again
DispatchStaleFrame ==
    /\ pc = "dispatch"
    /\ task' = [task EXCEPT ![cur] =
                  [u \in 1..MaxRois |-> IF u \in Units THEN "queued" ELSE "none"]]
    /\ mapError' = NoExc
    /\ res' = RecentResults
    /\ calls' = RecentCalls
    /\ pc' = "map"
    /\ UNCHANGED otherVars
    /\ outOfOrder' = FALSE
    /\ UNCHANGED <<frameVars, runs>>
    /\ UNCHANGED <<ctorVars, monitorVars, force_stop, writer, drawer, pulled,
                   t, j, excVars, stopAt>>

\* trackerFrame=TrackerFrame(t,frame), then
\* self._process_pool.map(trackerFrame.run, self._unit_trackers) is called:
\* one task per tracking unit is queued
Dispatch ==
    /\ pc = "dispatch"
    /\ task' = [task EXCEPT ![cur] =
                  [u \in 1..MaxRois |-> IF u \in Units THEN "queued" ELSE "none"]]
    /\ mapError' = NoExc
    /\ res' = RecentResults
    /\ calls' = RecentCalls
    /\ pc' = "map"
    /\ UNCHANGED otherVars
    /\ trackerFrame' = t
    /\ outOfOrder' = FALSE
    /\ UNCHANGED <<handed, runs>>
    /\ UNCHANGED <<ctorVars, monitorVars, force_stop, writer, drawer, pulled,
                   t, j, excVars, stopAt>>

\* ------------------------------------------------------ the pool's threads
Running == {p \in Frames \X (1..MaxRois) : task[p[1]][p[2]] = "running"}

\* a free pool thread takes the next queued task: track_u.track(t, frame)
StartTrack(k, u) ==
    /\ task[k][u] = "queued"
    /\ \A v \in 1..(u - 1) : task[k][v] # "queued"
    /\ Cardinality(Running) < PoolSize
    /\ task' = [task EXCEPT ![k][u] = "running"]
    /\ handed' = [handed EXCEPT ![u] = trackerFrame]
    /\ UNCHANGED otherVars
    /\ UNCHANGED <<trackerFrame, runs, outOfOrder>>
    /\ UNCHANGED <<ctorVars, monitorVars, force_stop, pc, writer, drawer,
                   pulled, t, res, mapError, j, excVars, calls, stopAt>>

\* the task of unit u ends while run() waits in map() and the task of a
\* unit before u in the list has not ended
EndsBeforeEarlier(k, u) ==
    /\ pc = "map"
    /\ k = cur
    /\ \E v \in 1..(u - 1) : task[k][v] \in {"queued", "running"}

\* trackerFrame.run returns (data_rows, roi, abs_pos)
FinishTrack(k, u, rows) ==
    /\ task[k][u] = "running"
    /\ task' = [task EXCEPT ![k][u] = "done"]
    /\ res' = [res EXCEPT ![k][u] = rows]
    /\ UNCHANGED otherVars
    /\ outOfOrder' = (outOfOrder \/ EndsBeforeEarlier(k, u))
    /\ UNCHANGED <<frameVars, runs>>
    /\ UNCHANGED <<ctorVars, monitorVars, force_stop, pc, writer, drawer,
                   pulled, t, mapError, j, excVars, calls, stopAt>>

\* track raises: the pool hands the first failure of a map call to its caller
FailTrack(k, u) ==
    /\ task[k][u] = "running"
    /\ task' = [task EXCEPT ![k][u] = "failed"]
    /\ res' = [res EXCEPT ![k][u] = "raise"]
    /\ mapError' = IF pc = "map" /\ k = cur /\ mapError = NoExc
                     THEN <<"TrackError", u>> ELSE mapError
    /\ UNCHANGED otherVars
    /\ outOfOrder' = (outOfOrder \/ EndsBeforeEarlier(k, u))
    /\ UNCHANGED <<frameVars, runs>>
    /\ UNCHANGED <<ctorVars, monitorVars, force_stop, pc, writer, drawer,
                   pulled, t, j, excVars, calls, stopAt>>

\* ----------------------------------------------------- back in run()
\* variant: map() returns once every task has been handed to a thread
MapReadyStarted == \A u \in Units : task[cur][u] # "queued"

\* variant: the results are not waited for at all (map_async without get)
MapReadyAsync == TRUE

\* variant: map() returns as soon as one task has returned its result
MapReadyFirstResult == \E u \in Units : task[cur][u] = "done"

\* variant: map() returns when every task has ended, a failed one included
MapReadyEnded == \A u \in Units : task[cur][u] \in {"done", "failed"}

\* map() blocks until every task of the frame has produced its result
MapReady == \A u \in Units : task[cur][u] = "done"

MapReturn ==
    /\ pc = "map"
    /\ MapReady
    /\ j' = 1
    /\ pc' = "agg"
    /\ UNCHANGED otherVars
    /\ UNCHANGED trackVars
    /\ UNCHANGED <<ctorVars, monitorVars, force_stop, writer, drawer, pulled,
                   t, poolVars, excVars, calls, stopAt>>

\* map() re-raises the failure of a task
MapRaise ==
    /\ pc = "map"
    /\ mapError # NoExc
    /\ thrown' = mapError
    /\ pc' = "except"
    /\ UNCHANGED otherVars
    /\ outOfOrder' = FALSE
    /\ UNCHANGED <<frameVars, runs>>
    /\ UNCHANGED <<ctorVars, monitorVars, force_stop, writer, drawer, pulled,
                   t, poolVars, j, exc, runResult, calls, stopAt>>

\* variant: the end-of-frame flush is left out
AfterAggregationNoFlush == IF drawer THEN "draw" ELSE "pull"

\* where run() continues after the for loop over trackingResults
AfterFlush == IF drawer THEN "draw" ELSE "pull"
AfterAggregation == IF writer THEN "flush" ELSE AfterFlush

\* the entry one result puts into self._last_positions
PositionEntry(rows, roi, k) == IF rows = "empty" THEN Empty ELSE AbsPos(roi, k)

\* variant: a result without rows is skipped before the dict is touched
AggregateSkipEmpty ==
    /\ pc = "agg"
    /\ j <= NUnits
    /\ LET roi == unit_trackers[j].roi
           rows == res[cur][j]
       IN /\ last_positions' =
                IF rows = "empty" THEN last_positions
                ELSE [last_positions EXCEPT ![roi] = AbsPos(roi, cur)]
          /\ IF rows # "empty" /\ writer
               THEN pc' = "write" /\ j' = j
               ELSE pc' = "agg" /\ j' = j + 1
    /\ UNCHANGED otherVars
    /\ UNCHANGED trackVars
    /\ UNCHANGED <<ctorVars, last_frame_idx, last_time_stamp, is_running,
                   force_stop, writer, drawer, pulled, t, poolVars, excVars,
                   calls, stopAt>>

\* variant: no `continue`, a result without rows is written as well
AggregateWriteAll ==
    /\ pc = "agg"
    /\ j <= NUnits
    /\ LET roi == unit_trackers[j].roi
           rows == res[cur][j]
       IN /\ last_positions' =
                [last_positions EXCEPT ![roi] = PositionEntry(rows, roi, cur)]
          /\ IF writer
               THEN pc' = "write" /\ j' = j
               ELSE pc' = "agg" /\ j' = j + 1
    /\ UNCHANGED otherVars
    /\ UNCHANGED trackVars
    /\ UNCHANGED <<ctorVars, last_frame_idx, last_time_stamp, is_running,
                   force_stop, writer, drawer, pulled, t, poolVars, excVars,
                   calls, stopAt>>

\* variant: the results are taken from the last unit to the first
AggregateReversed ==
    /\ pc = "agg"
    /\ j <= NUnits
    /\ LET u == NUnits + 1 - j
           roi == unit_trackers[u].roi
           rows == res[cur][u]
       IN /\ last_positions' =
                [last_positions EXCEPT ![roi] = PositionEntry(rows, roi, cur)]
          /\ IF rows # "empty" /\ writer
               THEN pc' = "write" /\ j' = j
               ELSE pc' = "agg" /\ j' = j + 1
    /\ UNCHANGED otherVars
    /\ UNCHANGED trackVars
    /\ UNCHANGED <<ctorVars, last_frame_idx, last_time_stamp, is_running,
                   force_stop, writer, drawer, pulled, t, poolVars, excVars,
                   calls, stopAt>>

\* one iteration of: for data_rows,roi,abs_pos in trackingResults
Aggregate ==
    /\ pc = "agg"
    /\ j <= NUnits
    /\ LET roi == unit_trackers[j].roi
           rows == res[cur][j]
       IN /\ last_positions' =
                [last_positions EXCEPT ![roi] = PositionEntry(rows, roi, cur)]
          /\ IF rows # "empty" /\ writer
               THEN pc' = "write" /\ j' = j
               ELSE pc' = "agg" /\ j' = j + 1
    /\ UNCHANGED otherVars
    /\ UNCHANGED trackVars
    /\ UNCHANGED <<ctorVars, last_frame_idx, last_time_stamp, is_running,
                   force_stop, writer, drawer, pulled, t, poolVars, excVars,
                   calls, stopAt>>

AggregateEnd ==
    /\ pc = "agg"
    /\ j > NUnits
    /\ pc' = AfterAggregation
    /\ UNCHANGED otherVars
    /\ outOfOrder' = FALSE
    /\ UNCHANGED <<frameVars, runs>>
    /\ UNCHANGED <<ctorVars, monitorVars, force_stop, writer, drawer, pulled,
                   t, poolVars, j, excVars, calls, stopAt>>

Call(op, roi) == [op |-> op, frame |-> cur, roi |-> roi]

\* result_writer.write(t, roi, data_rows)
Write ==
    /\ pc = "write"
    /\ calls' = Append(calls, Call("write", unit_trackers[j].roi))
    /\ j' = j + 1
    /\ pc' = "agg"
    /\ UNCHANGED otherVars
    /\ UNCHANGED trackVars
    /\ UNCHANGED <<ctorVars, monitorVars, force_stop, writer, drawer, pulled,
                   t, poolVars, excVars, stopAt>>

WriteRaise ==
    /\ pc = "write"
    /\ thrown' = <<"WriteError">>
    /\ pc' = "except"
    /\ UNCHANGED otherVars
    /\ UNCHANGED trackVars
    /\ UNCHANGED <<ctorVars, monitorVars, force_stop, writer, drawer, pulled,
                   t, poolVars, j, exc, runResult, calls, stopAt>>

\* result_writer.flush(t, frame)
Flush ==
    /\ pc = "flush"
    /\ calls' = Append(calls, Call("flush", NoRoi))
    /\ pc' = AfterFlush
    /\ UNCHANGED otherVars
    /\ UNCHANGED trackVars
    /\ UNCHANGED <<ctorVars, monitorVars, force_stop, writer, drawer, pulled,
                   t, poolVars, j, excVars, stopAt>>

FlushRaise ==
    /\ pc = "flush"
    /\ thrown' = <<"FlushError">>
    /\ pc' = "except"
    /\ UNCHANGED otherVars
    /\ UNCHANGED trackVars
    /\ UNCHANGED <<ctorVars, monitorVars, force_stop, writer, drawer, pulled,
                   t, poolVars, j, exc, runResult, calls, stopAt>>

\* drawer.draw(frame, self._last_positions, self._unit_trackers)
Draw ==
    /\ pc = "draw"
    /\ calls' = Append(calls, Call("draw", NoRoi))
    /\ pc' = "pull"
    /\ UNCHANGED otherVars
    /\ UNCHANGED trackVars
    /\ UNCHANGED <<ctorVars, monitorVars, force_stop, writer, drawer, pulled,
                   t, poolVars, j, excVars, stopAt>>

DrawRaise ==
    /\ pc = "draw"
    /\ thrown' = <<"DrawError">>
    /\ pc' = "except"
    /\ UNCHANGED otherVars
    /\ UNCHANGED trackVars
    /\ UNCHANGED <<ctorVars, monitorVars, force_stop, writer, drawer, pulled,
                   t, poolVars, j, exc, runResult, calls, stopAt>>

\* variant: the exception is logged and not raised again
ExceptSwallow ==
    /\ pc = "except"
    /\ pc' = "finally"
    /\ UNCHANGED otherVars
    /\ UNCHANGED trackVars
    /\ UNCHANGED <<ctorVars, monitorVars, force_stop, writer, drawer, pulled,
                   t, poolVars, j, excVars, calls, stopAt>>

\* except Exception as e: logging.error(...); raise e
Except ==
    /\ pc = "except"
    /\ exc' = thrown
    /\ pc' = "finally"
    /\ UNCHANGED otherVars
    /\ UNCHANGED trackVars
    /\ UNCHANGED <<ctorVars, monitorVars, force_stop, writer, drawer, pulled,
                   t, poolVars, j, thrown, runResult, calls, stopAt>>

\* variant: the running flag is only cleared on the exception path
FinallyKeepsRunning ==
    /\ pc = "finally"
    /\ is_running' = (exc = NoExc)
    /\ runResult' = IF exc = NoExc THEN "returned" ELSE "raised"
    /\ pc' = "exit"
    /\ UNCHANGED otherVars
    /\ UNCHANGED trackVars
    /\ UNCHANGED <<ctorVars, last_positions, last_frame_idx, last_time_stamp,
                   force_stop, writer, drawer, pulled, t, poolVars, j, thrown,
                   exc, calls, stopAt>>

\* finally: self._is_running = False; run() is left
Finally ==
    /\ pc = "finally"
    /\ is_running' = FALSE
    /\ runResult' = IF exc = NoExc THEN "returned" ELSE "raised"
    /\ pc' = "exit"
    /\ UNCHANGED otherVars
    /\ UNCHANGED trackVars
    /\ UNCHANGED <<ctorVars, last_positions, last_frame_idx, last_time_stamp,
                   force_stop, writer, drawer, pulled, t, poolVars, j, thrown,
                   exc, calls, stopAt>>

Next ==
    \/ Construct
    \/ Stop
    \/ Run
    \/ PullFrame
    \/ PullExhausted
    \/ PullRaise
    \/ CheckStop
    \/ SetCounters
    \/ SetTimeStamp
    \/ Dispatch
    \/ \E k \in Frames, u \in 1..MaxRois : StartTrack(k, u)
    \/ \E k \in Frames, u \in 1..MaxRois, rows \in {"empty", "rows"} :
          FinishTrack(k, u, rows)
    \/ \E k \in Frames, u \in 1..MaxRois : FailTrack(k, u)
    \/ MapReturn
    \/ MapRaise
    \/ Aggregate
    \/ AggregateEnd
    \/ Write
    \/ WriteRaise
    \/ Flush
    \/ FlushRaise
    \/ Draw
    \/ DrawRaise
    \/ Except
    \/ Finally

\* ============================================================ interactors
\* Model of tracking/interactors.py: one interactor object, the tracker it
\* is bound to, and the calls it makes to the hardware interface or to the
\* process it starts.  Lengths are in thousandths of the position unit.

\* ---------------------------------------------------------------- bounds
MaxRecords == 5     \* most records the tracker appends to its history
MaxLaunches == 3    \* most processes one asynchronous interactor starts
Points == {<<0, 0>>, <<1, 1>>, <<10, 0>>}   \* (x, y) of a position record
Steps == {45, 95}                     \* seconds between two records
Metrics == {-4000, -3000, -2000, 3000}      \* xy_dist_log10x1000 values
Channels == {1, 2}
Kinds == {"SleepDep", "IsMoving", "Async"}

\* ------------------------------------------------------ program constants
distance_threshold == 10              \* 1e-2, in thousandths
inactivity_time_threshold == 90       \* s
speed_threshold == <<25, 10000>>      \* 0.0025 as numerator, denominator

NoT0 == -1                            \* self._t0 is None
NoChannel == 0

\* the fields of a record the interactor of class k reads; the others are
\* held at one value
PointsRead(k) == IF k = "SleepDep" THEN Points ELSE {<<0, 0>>}
MetricsRead(k) == IF k = "IsMoving" THEN Metrics ELSE {3000}

Position(p, m) == [x |-> p[1], y |-> p[2], xy_dist_log10x1000 |-> m]

\* s[-2:]
Tail2(s) == IF Len(s) <= 2 THEN s ELSE SubSeq(s, Len(s) - 1, Len(s))

\* the state of a newly constructed interactor of class k
InteractorNew(k, c, tg) ==
    /\ kind = k
    /\ channel = c
    /\ target = tg
    /\ tracker = FALSE
    /\ nrec = 0
    /\ positions = <<>>
    /\ times = <<>>
    /\ t0 = NoT0
    /\ last_active = 0
    /\ subprocess = 0
    /\ alive = {}
    /\ ipc = "idle"
    /\ decision = [interact |-> FALSE, result |-> <<>>]
    /\ ret = [outcome |-> "none", error |-> "", interact |-> FALSE,
              launched |-> FALSE]
    /\ hw = [calls |-> 0, running |-> FALSE, channel |-> NoChannel,
             last |-> "none"]
    /\ evals = [order |-> "evaluated", fires |-> 0, fired_at |-> NoT0]

\* ------------------------------------------------ copy_database: bounds
MaxRows == 4        \* most rows the input table ever holds, and the longest
                    \* output table that is copied into once more
MaxResets == 1      \* most times the input database is wiped and restarted
BatchSize == 2      \* stands for self._batchSize = 2000

Null == 0                             \* SQL NULL in a column
NoEpoch == -1                         \* the database has no METADATA table

\* the n-th row written to the input table; its first column holds n or NULL
Row(n, null) == [first |-> IF null THEN Null ELSE n, id |-> n]

NoCall == [outcome |-> "none", existed |-> FALSE, wiped |-> FALSE,
           before |-> <<>>, selected |-> <<>>]

\* an empty input database, no output database, no copy made
CopyNew ==
    /\ inRows = <<>>
    /\ inEpoch = 0
    /\ outRows = <<>>
    /\ outExists = FALSE
    /\ outEpoch = NoEpoch
    /\ cpc = "idle"
    /\ cursor = <<>>
    /\ bulkRows = <<>>
    /\ last = NoCall

\* the Monitor is not part of this specification: its variables stay as
\* they are before construction
MonitorParked ==
    /\ MonitorInit
    /\ rois = NoList
    /\ stimulators = NoList

InitInteractor ==
    /\ MonitorParked
    /\ CopyNew
    /\ \E k \in Kinds :
          \E c \in (IF k = "SleepDep" THEN Channels ELSE {NoChannel}) :
             \E tg \in (IF k = "Async" THEN BOOLEAN ELSE {FALSE}) :
                InteractorNew(k, c, tg)

Init ==
    /\ MonitorInit
    /\ InteractorNew("SleepDep", 1, FALSE)
    /\ CopyNew

Spec == Init /\ [][Next]_vars

\* ------------------------------------------------------ run() called again
\* variant: run() clears the stop flag when it starts
RerunClearsStop ==
    /\ pc = "exit"
    /\ force_stop
    /\ runs.n < MaxRuns
    /\ force_stop' = FALSE
    /\ is_running' = TRUE
    /\ thrown' = NoExc
    /\ exc' = NoExc
    /\ runResult' = "none"
    /\ pc' = "pull"
    /\ runs' = [n |-> runs.n + 1, stopped |-> force_stop, from |-> pulled]
    /\ UNCHANGED otherVars
    /\ UNCHANGED <<frameVars, outOfOrder>>
    /\ UNCHANGED <<ctorVars, last_positions, last_frame_idx, last_time_stamp,
                   writer, drawer, pulled, t, poolVars, j, calls, stopAt>>

\* run() is called again, with the same writer and drawer, after run() has
\* returned or raised: self._is_running = True and a new enumerate over the
\* camera.  The later run is followed when stop() has been called, where
\* the index of the new enumerate is never read.
Rerun ==
    /\ pc = "exit"
    /\ force_stop
    /\ runs.n < MaxRuns
    /\ is_running' = TRUE
    /\ thrown' = NoExc
    /\ exc' = NoExc
    /\ runResult' = "none"
    /\ pc' = "pull"
    /\ runs' = [n |-> runs.n + 1, stopped |-> force_stop, from |-> pulled]
    /\ UNCHANGED otherVars
    /\ UNCHANGED <<frameVars, outOfOrder>>
    /\ UNCHANGED <<ctorVars, last_positions, last_frame_idx, last_time_stamp,
                   force_stop, writer, drawer, pulled, t, poolVars, j, calls,
                   stopAt>>

NextRerun ==
    \/ Next
    \/ Rerun

\* the thread of run() goes on, and the camera yields a frame, is exhausted
\* or raises
RunLoopStep ==
    \/ PullFrame
    \/ PullExhausted
    \/ PullRaise
    \/ CheckStop
    \/ Except
    \/ Finally

\* a Monitor made for two ROIs, without stimulators
InitRerun ==
    /\ Init
    /\ rois = <<1, 2>>
    /\ stimulators = NoList

SpecRerun == InitRerun /\ [][NextRerun]_vars /\ WF_vars(RunLoopStep)

\* ------------------------------------------------------------- the tracker
\* the tracker appends one record to its positions and times
AppendRecord(p, m, dt) ==
    /\ kind \in {"SleepDep", "IsMoving"}
    /\ ipc = "idle"
    /\ nrec < MaxRecords
    /\ p \in PointsRead(kind)
    /\ m \in MetricsRead(kind)
    /\ positions' = Tail2(Append(positions, Position(p, m)))
    /\ times' = Tail2(Append(times, IF nrec = 0 THEN 0
                                    ELSE times[Len(times)] + dt))
    /\ nrec' = nrec + 1
    /\ evals' = [evals EXCEPT
                   !.order = IF @ = "evaluated" THEN "fresh" ELSE "broken"]
    /\ UNCHANGED <<kind, channel, tracker, t0, last_active, target,
                   subprocess, alive, ipc, decision, ret, hw>>
    /\ UNCHANGED <<allMonitorVars, copyVars>>

\* bind_tracker(tracker)
BindTracker ==
    /\ ipc = "idle"
    /\ ~tracker
    /\ tracker' = TRUE
    /\ UNCHANGED <<kind, channel, nrec, positions, times, t0, last_active,
                   target, subprocess, alive, ipc, decision, ret, hw, evals>>
    /\ UNCHANGED <<allMonitorVars, copyVars>>

\* ------------------------------------------------ SleepDepInteractor._run
Sq(a) == a * a

\* variant: a displacement equal to the threshold counts as stationary
StationaryUpTo(ps) ==
    Sq(ps[Len(ps)].x - ps[Len(ps) - 1].x)
      + Sq(ps[Len(ps)].y - ps[Len(ps) - 1].y) <= Sq(distance_threshold)

\* np.abs(xy_m - xy_mm) < self._distance_threshold, both sides squared
Stationary(ps) ==
    Sq(ps[Len(ps)].x - ps[Len(ps) - 1].x)
      + Sq(ps[Len(ps)].y - ps[Len(ps) - 1].y) < Sq(distance_threshold)

\* variant: the timer is left running when the interactor fires
SleepDepRunKeepTimer(n, ps, ts, tz) ==
    IF n < 2 THEN [interact |-> FALSE, t0 |-> tz]
    ELSE IF Stationary(ps)
           THEN IF tz = NoT0 THEN [interact |-> FALSE, t0 |-> ts[Len(ts)]]
                ELSE IF ts[Len(ts)] - tz > inactivity_time_threshold
                       THEN [interact |-> TRUE, t0 |-> tz]
                       ELSE [interact |-> FALSE, t0 |-> tz]
           ELSE [interact |-> FALSE, t0 |-> NoT0]

\* variant: firing restarts the timer at the latest record
SleepDepRunRestartTimer(n, ps, ts, tz) ==
    IF n < 2 THEN [interact |-> FALSE, t0 |-> tz]
    ELSE IF Stationary(ps)
           THEN IF tz = NoT0 THEN [interact |-> FALSE, t0 |-> ts[Len(ts)]]
                ELSE IF ts[Len(ts)] - tz > inactivity_time_threshold
                       THEN [interact |-> TRUE, t0 |-> ts[Len(ts)]]
                       ELSE [interact |-> FALSE, t0 |-> tz]
           ELSE [interact |-> FALSE, t0 |-> NoT0]

\* variant: a new streak is timed from the record before the latest
SleepDepRunFromPrevious(n, ps, ts, tz) ==
    IF n < 2 THEN [interact |-> FALSE, t0 |-> tz]
    ELSE IF Stationary(ps)
           THEN IF tz = NoT0
                  THEN IF ts[Len(ts)] - ts[Len(ts) - 1]
                            > inactivity_time_threshold
                         THEN [interact |-> TRUE, t0 |-> NoT0]
                         ELSE [interact |-> FALSE, t0 |-> ts[Len(ts) - 1]]
                ELSE IF ts[Len(ts)] - tz > inactivity_time_threshold
                       THEN [interact |-> TRUE, t0 |-> NoT0]
                       ELSE [interact |-> FALSE, t0 |-> tz]
           ELSE [interact |-> FALSE, t0 |-> NoT0]

\* _run with n records in the history, ps and ts its last entries and tz
\* the value of self._t0: the decision and the new value of self._t0
SleepDepRun(n, ps, ts, tz) ==
    IF n < 2 THEN [interact |-> FALSE, t0 |-> tz]
    ELSE IF Stationary(ps)
           THEN IF tz = NoT0 THEN [interact |-> FALSE, t0 |-> ts[Len(ts)]]
                ELSE IF ts[Len(ts)] - tz > inactivity_time_threshold
                       THEN [interact |-> TRUE, t0 |-> NoT0]
                       ELSE [interact |-> FALSE, t0 |-> tz]
           ELSE [interact |-> FALSE, t0 |-> NoT0]

\* ------------------------------------------------ IsMovingInteractor._run
RECURSIVE Pow10(_)
Pow10(e) == IF e = 0 THEN 1 ELSE 10 * Pow10(e - 1)

\* variant: the metric is compared as it is, without decoding
AboveSpeedUndecoded(m) == m * speed_threshold[2] > speed_threshold[1]

\* 10.0 ** (m / 1000.0) > self._speed_threshold, for m a multiple of 1000
AboveSpeed(m) ==
    IF m >= 0
      THEN Pow10(m \div 1000) * speed_threshold[2] > speed_threshold[1]
      ELSE speed_threshold[2] > speed_threshold[1] * Pow10((0 - m) \div 1000)

\* _run: the decision and the new value of self._last_active
IsMovingRun(n, ps, ts, la) ==
    IF n < 2 THEN [interact |-> FALSE, last_active |-> la]
    ELSE IF AboveSpeed(ps[Len(ps)].xy_dist_log10x1000)
           THEN [interact |-> FALSE, last_active |-> ts[Len(ts)]]
           ELSE [interact |-> TRUE, last_active |-> la]

\* ------------------------------------------- BaseInteractorSync.__call__
\* how an invocation ended, what it decided and whether it started a process
Returned(b) == [outcome |-> "returned", error |-> "", interact |-> b,
                launched |-> FALSE]
Raised(e, b) == [outcome |-> "raised", error |-> e, interact |-> b,
                 launched |-> FALSE]
InCall(b) == [outcome |-> "running", error |-> "", interact |-> b,
              launched |-> FALSE]
Launched == [outcome |-> "returned", error |-> "", interact |-> TRUE,
             launched |-> TRUE]

\* the bookkeeping of evaluations against appended records
Evaluated(fired, moved, now) ==
    [order |-> IF evals.order = "fresh" THEN "evaluated" ELSE "broken",
     fires |-> IF moved THEN 0
               ELSE IF fired THEN evals.fires + 1 ELSE evals.fires,
     fired_at |-> IF fired THEN now ELSE evals.fired_at]

\* variant: _run is entered without looking at self._tracker
InvokeUnchecked ==
    /\ kind \in {"SleepDep", "IsMoving"}
    /\ ipc = "idle"
    /\ LET r == IF kind = "SleepDep"
                  THEN SleepDepRun(nrec, positions, times, t0)
                  ELSE [interact |->
                           IsMovingRun(nrec, positions, times,
                                       last_active).interact,
                        t0 |-> t0]
       IN /\ t0' = r.t0
          /\ decision' = [interact |-> r.interact, result |-> <<>>]
          /\ ret' = Returned(r.interact)
    /\ UNCHANGED <<kind, channel, tracker, nrec, positions, times,
                   last_active, target, subprocess, alive, ipc, hw, evals>>
    /\ UNCHANGED <<allMonitorVars, copyVars>>

\* __call__ up to the call of self._interact(**result)
Invoke ==
    /\ kind \in {"SleepDep", "IsMoving"}
    /\ ipc = "idle"
    /\ IF ~tracker
         THEN /\ ret' = Raised("ValueError", FALSE)
              /\ UNCHANGED <<t0, last_active, decision, ipc, hw, evals>>
         ELSE LET sd == SleepDepRun(nrec, positions, times, t0)
                  im == IsMovingRun(nrec, positions, times, last_active)
                  interact == IF kind = "SleepDep" THEN sd.interact
                              ELSE im.interact
              IN /\ t0' = IF kind = "SleepDep" THEN sd.t0 ELSE t0
                 /\ last_active' = IF kind = "IsMoving" THEN im.last_active
                                   ELSE last_active
                 /\ decision' = [interact |-> interact,
                                 result |-> IF kind = "SleepDep"
                                              THEN <<channel>> ELSE <<>>]
                 /\ evals' = Evaluated(kind = "SleepDep" /\ interact,
                                       kind = "SleepDep" /\ nrec >= 2
                                          /\ ~Stationary(positions),
                                       IF nrec >= 1 THEN times[Len(times)]
                                       ELSE NoT0)
                 /\ IF interact
                      THEN /\ ipc' = "interact"
                           /\ ret' = InCall(TRUE)
                           /\ hw' = IF kind = "SleepDep"
                                      THEN [calls |-> hw.calls + 1,
                                            running |-> TRUE,
                                            channel |-> channel,
                                            last |-> "none"]
                                      ELSE hw
                      ELSE /\ ipc' = "idle"
                           /\ ret' = Returned(FALSE)
                           /\ hw' = hw
    /\ UNCHANGED <<kind, channel, tracker, nrec, positions, times, target,
                   subprocess, alive>>
    /\ UNCHANGED <<allMonitorVars, copyVars>>

\* SleepDepInteractor._interact: deprive(channel=...) raises; nothing
\* between the call and the caller of __call__ catches it
DepriveRaise ==
    /\ kind = "SleepDep"
    /\ ipc = "interact"
    /\ hw' = [hw EXCEPT !.running = FALSE, !.last = "raised"]
    /\ ret' = Raised("HardwareError", TRUE)
    /\ ipc' = "idle"
    /\ UNCHANGED <<kind, channel, tracker, nrec, positions, times, t0,
                   last_active, target, subprocess, alive, decision, evals>>
    /\ UNCHANGED <<allMonitorVars, copyVars>>

\* variant: __call__ returns while deprive is still running
DepriveReturnEarly ==
    /\ kind = "SleepDep"
    /\ ipc = "interact"
    /\ ret' = Returned(TRUE)
    /\ ipc' = "idle"
    /\ UNCHANGED <<kind, channel, tracker, nrec, positions, times, t0,
                   last_active, target, subprocess, alive, decision, hw,
                   evals>>
    /\ UNCHANGED <<allMonitorVars, copyVars>>

\* SleepDepInteractor._interact: deprive(channel=...) returns, then
\* __call__ returns interact, result
DepriveReturn ==
    /\ kind = "SleepDep"
    /\ ipc = "interact"
    /\ hw' = [hw EXCEPT !.running = FALSE, !.last = "returned"]
    /\ ret' = Returned(TRUE)
    /\ ipc' = "idle"
    /\ UNCHANGED <<kind, channel, tracker, nrec, positions, times, t0,
                   last_active, target, subprocess, alive, decision, evals>>
    /\ UNCHANGED <<allMonitorVars, copyVars>>

\* IsMovingInteractor._interact is `pass`; __call__ returns
InteractPass ==
    /\ kind = "IsMoving"
    /\ ipc = "interact"
    /\ ret' = Returned(TRUE)
    /\ ipc' = "idle"
    /\ UNCHANGED <<kind, channel, tracker, nrec, positions, times, t0,
                   last_active, target, subprocess, alive, decision, hw,
                   evals>>
    /\ UNCHANGED <<allMonitorVars, copyVars>>

\* ------------------------------------------------ BaseInteractor.__call__
\* __call__ up to the call of self._interact_async(result); _run is
\* abstract in the base class, its decision is an input
InvokeAsync(interact) ==
    /\ kind = "Async"
    /\ ipc = "idle"
    /\ interact => subprocess < MaxLaunches
    /\ IF ~tracker
         THEN /\ ret' = Raised("ValueError", FALSE)
              /\ UNCHANGED <<decision, ipc>>
         ELSE /\ decision' = [interact |-> interact, result |-> <<>>]
              /\ IF interact
                   THEN /\ ipc' = "is_alive"
                        /\ ret' = InCall(TRUE)
                   ELSE /\ ipc' = "idle"
                        /\ ret' = Returned(FALSE)
    /\ UNCHANGED <<kind, channel, tracker, nrec, positions, times, t0,
                   last_active, target, subprocess, alive, hw, evals>>
    /\ UNCHANGED <<allMonitorVars, copyVars>>

\* variant: the liveness of the previous process is not looked at
InteractAsyncNoAliveCheck ==
    /\ ipc = "is_alive"
    /\ IF ~target
         THEN /\ ipc' = "idle"
              /\ ret' = Returned(TRUE)
         ELSE /\ ipc' = "start"
              /\ ret' = ret
    /\ UNCHANGED <<kind, channel, tracker, nrec, positions, times, t0,
                   last_active, target, subprocess, alive, decision, hw,
                   evals>>
    /\ UNCHANGED <<allMonitorVars, copyVars>>

\* _interact_async: the two early returns, after which __call__ returns
InteractAsyncCheck ==
    /\ ipc = "is_alive"
    /\ IF subprocess \in alive \/ ~target
         THEN /\ ipc' = "idle"
              /\ ret' = Returned(TRUE)
         ELSE /\ ipc' = "start"
              /\ ret' = ret
    /\ UNCHANGED <<kind, channel, tracker, nrec, positions, times, t0,
                   last_active, target, subprocess, alive, decision, hw,
                   evals>>
    /\ UNCHANGED <<allMonitorVars, copyVars>>

\* _interact_async: a new Process is made and started; __call__ returns
InteractAsyncStart ==
    /\ ipc = "start"
    /\ subprocess' = subprocess + 1
    /\ alive' = alive \cup {subprocess + 1}
    /\ ipc' = "idle"
    /\ ret' = Launched
    /\ UNCHANGED <<kind, channel, tracker, nrec, positions, times, t0,
                   last_active, target, decision, hw, evals>>
    /\ UNCHANGED <<allMonitorVars, copyVars>>

\* a started process runs its target to the end and exits
ProcessExit(p) ==
    /\ p \in alive
    /\ alive' = alive \ {p}
    /\ UNCHANGED <<kind, channel, tracker, nrec, positions, times, t0,
                   last_active, target, subprocess, ipc, decision, ret, hw,
                   evals>>
    /\ UNCHANGED <<allMonitorVars, copyVars>>

NextInteractor ==
    \/ \E p \in Points, m \in Metrics, dt \in Steps : AppendRecord(p, m, dt)
    \/ BindTracker
    \/ Invoke
    \/ DepriveReturn
    \/ DepriveRaise
    \/ InteractPass
    \/ \E interact \in BOOLEAN : InvokeAsync(interact)
    \/ InteractAsyncCheck
    \/ InteractAsyncStart
    \/ \E p \in 1..(MaxLaunches + 1) : ProcessExit(p)

SpecInteractor == InitInteractor /\ [][NextInteractor]_vars


\* ========================================================== copy_database
\* Model of MySQLdbConverter.copy_database for one data table; rows are
\* read in table order.

InitCopy ==
    /\ MonitorParked
    /\ InteractorNew("SleepDep", 1, FALSE)
    /\ CopyNew

\* the ethoscope writes one more row to the input table
InsertInput(null) ==
    /\ Len(inRows) < MaxRows
    /\ inRows' = Append(inRows, Row(Len(inRows) + 1, null))
    /\ UNCHANGED <<inEpoch, outRows, outExists, outEpoch, cpc, cursor,
                   bulkRows, last>>
    /\ UNCHANGED <<allMonitorVars, interactorVars>>

\* the input database is wiped and a new experiment starts
ResetInput ==
    /\ inEpoch < MaxResets
    /\ inEpoch' = inEpoch + 1
    /\ inRows' = <<>>
    /\ UNCHANGED <<outRows, outExists, outEpoch, cpc, cursor, bulkRows, last>>
    /\ UNCHANGED <<allMonitorVars, interactorVars>>

\* _hasChanged: the date_time values differ; False when a METADATA table
\* is missing
HasChanged == outEpoch # NoEpoch /\ outEpoch # inEpoch

RECURSIVE NonNull(_)
\* func.count(first column).scalar(): the rows whose first column is not NULL
NonNull(rows) ==
    IF rows = <<>> THEN 0
    ELSE (IF Head(rows).first = Null THEN 0 ELSE 1) + NonNull(Tail(rows))

\* select.offset(n).execute()
Offset(rows, n) == IF n >= Len(rows) THEN <<>> ELSE SubSeq(rows, n + 1, Len(rows))

\* copy_database up to the start of the batching loop
CopyStart(engine, skip) ==
    /\ cpc = "idle"
    /\ Len(outRows) <= MaxRows
    /\ IF ~engine
         THEN /\ last' = [NoCall EXCEPT !.outcome = "raised"]
              /\ UNCHANGED <<outRows, outExists, outEpoch, cpc, cursor,
                             bulkRows>>
         ELSE LET wiped == HasChanged
                  existed == outExists /\ ~wiped
                  kept == IF wiped THEN <<>> ELSE outRows
              IN /\ outEpoch' = inEpoch
                 /\ IF skip
                      THEN /\ outRows' = kept
                           /\ outExists' = existed
                           /\ cursor' = <<>>
                           /\ cpc' = "idle"
                           /\ last' = [outcome |-> "skipped",
                                       existed |-> existed, wiped |-> wiped,
                                       before |-> kept, selected |-> <<>>]
                      ELSE /\ outRows' = kept
                           /\ outExists' = TRUE
                           /\ cursor' = IF existed
                                          THEN Offset(inRows, NonNull(kept))
                                          ELSE inRows
                           /\ cpc' = "rows"
                           /\ last' = [outcome |-> "running",
                                       existed |-> existed, wiped |-> wiped,
                                       before |-> kept, selected |-> inRows]
                 /\ bulkRows' = <<>>
    /\ UNCHANGED <<inRows, inEpoch>>
    /\ UNCHANGED <<allMonitorVars, interactorVars>>

\* one turn of the batching loop
CopyRow ==
    /\ cpc = "rows"
    /\ cursor # <<>>
    /\ cursor' = Tail(cursor)
    /\ IF Len(bulkRows) + 1 > BatchSize
         THEN /\ outRows' = outRows \o Append(bulkRows, Head(cursor))
              /\ bulkRows' = <<>>
         ELSE /\ outRows' = outRows
              /\ bulkRows' = Append(bulkRows, Head(cursor))
    /\ UNCHANGED <<inRows, inEpoch, outExists, outEpoch, cpc, last>>
    /\ UNCHANGED <<allMonitorVars, interactorVars>>

\* the rows left in bulkRows are inserted; copy_database returns
CopyEnd ==
    /\ cpc = "rows"
    /\ cursor = <<>>
    /\ outRows' = outRows \o bulkRows
    /\ bulkRows' = <<>>
    /\ cpc' = "idle"
    /\ last' = [last EXCEPT !.outcome = "copied"]
    /\ UNCHANGED <<inRows, inEpoch, outExists, outEpoch, cursor>>
    /\ UNCHANGED <<allMonitorVars, interactorVars>>

NextCopy ==
    \/ \E null \in BOOLEAN : InsertInput(null)
    \/ ResetInput
    \/ \E engine \in BOOLEAN, skip \in BOOLEAN : CopyStart(engine, skip)
    \/ CopyRow
    \/ CopyEnd

SpecCopy == InitCopy /\ [][NextCopy]_vars

\* ======================================================== properties
Roi(u) == unit_trackers[u].roi
Started(k, u) == task[k][u] \in {"running", "done", "failed"}
Finished(k, u) == task[k][u] \in {"done", "failed"}

\* what frame k's tracking of unit u produced, as a last-positions entry
FrameOutcome(k, u) ==
    IF res[k][u] = "empty" THEN Empty ELSE [roi |-> Roi(u), frame |-> k]

\* the entry unit u's ROI has before frame k is aggregated
PrevOutcome(k, u) == IF k <= 0 THEN Absent ELSE FrameOutcome(k - 1, u)

\* C1: no tracking unit's track call for frame n+1 starts before the track
\* calls of all tracking units for frame n have finished
C1_Barrier ==
    \A k \in Frames : \A u \in Units :
        (k + 1 \in Frames /\ Started(k + 1, u)) =>
            \A v \in Units : Finished(k, v)

C1_Witness ==
    /\ NUnits >= 2
    /\ pulled = 2
    /\ \E u \in Units : task[1][u] = "running"
    /\ \E v \in Units : task[1][v] = "queued"

\* C2 (as claimed): at every write, flush and draw call of frame k the map
\* holds frame k's outcome for every ROI
C2_AllSinksSeeFrame ==
    pc \in {"write", "flush", "draw"} =>
        \A u \in Units : last_positions[Roi(u)] = FrameOutcome(cur, u)

\* C2 (amended): at the flush and draw calls of frame k the map holds frame
\* k's outcome for every ROI; at the write call for the j-th unit it does so
\* for the units up to j, the later units still have their previous entry
C2_SinksSeeFrame ==
    /\ pc \in {"flush", "draw"} =>
          \A u \in Units : last_positions[Roi(u)] = FrameOutcome(cur, u)
    /\ pc = "write" =>
          \A u \in Units :
              last_positions[Roi(u)] =
                  IF u <= j THEN FrameOutcome(cur, u) ELSE PrevOutcome(cur, u)

C2_Witness ==
    /\ pc = "draw"
    /\ cur = 1
    /\ NUnits >= 2
    /\ \E i \in DOMAIN calls : calls[i].op = "write" /\ calls[i].frame = 1
    /\ \E u \in Units : res[0][u] = "rows" /\ res[1][u] = "empty"

\* the map is the outcome of one frame for every ROI (or still empty)
WholeFrame ==
    \/ \A u \in Units : last_positions[Roi(u)] = Absent
    \/ \E k \in Frames : k <= cur /\
          \A u \in Units : last_positions[Roi(u)] = FrameOutcome(k, u)

\* C3 (as claimed): while run() executes, a reader of last_positions sees
\* entries that all come from one and the same frame
C3_NeverPartial == is_running => WholeFrame

\* the units up to i hold the current frame's outcome, the others the
\* previous one
UpdatedUpTo(i) ==
    \A u \in Units :
        last_positions[Roi(u)] =
            IF u <= i THEN FrameOutcome(cur, u) ELSE PrevOutcome(cur, u)

\* C3 (amended): while run() executes, a reader of last_positions sees the
\* current frame's outcome for the units aggregated so far and the previous
\* frame's outcome for the others; outside the aggregation loop this is one
\* frame for all ROIs
C3_PrefixUpdated ==
    is_running =>
        /\ \E i \in 0..(IF cur < 0 THEN 0 ELSE NUnits) : UpdatedUpTo(i)
        /\ pc \in {"pull", "flush", "draw"} /\ cur >= 0 => UpdatedUpTo(NUnits)
        /\ pc \in {"check", "settime", "dispatch", "map"} => UpdatedUpTo(0)
        /\ pc \in {"agg", "write"} =>
              UpdatedUpTo(IF pc = "write" THEN j ELSE j - 1)

C3_Witness ==
    /\ is_running
    /\ pc = "agg"
    /\ cur = 1
    /\ j = 2
    /\ NUnits >= 2
    /\ last_positions[Roi(1)] = [roi |-> Roi(1), frame |-> 1]
    /\ last_positions[Roi(2)] = [roi |-> Roi(2), frame |-> 0]

\* ----- sink calls
Count(op, k, roi) ==
    Cardinality({i \in DOMAIN calls :
                    calls[i] = [op |-> op, frame |-> k, roi |-> roi]})
Made(op, k, roi) == Count(op, k, roi) > 0

\* frame k went through the whole loop body
FrameDone(k) == k < cur \/ (k = cur /\ pc = "pull")

StoppedWhileTracking == stopAt.phase = "tracking"

\* C4 (as claimed): after a stop() during frame k's tracking phase, run()
\* completes frame k and never pulls frame k+1
C4_StopBeforeNextPull ==
    StoppedWhileTracking =>
        /\ pulled <= stopAt.frame + 1
        /\ runResult = "returned" =>
              /\ writer => Made("flush", stopAt.frame, NoRoi)
              /\ drawer => Made("draw", stopAt.frame, NoRoi)

\* C4 (amended): after a stop() during frame k's tracking phase, run()
\* completes frame k unless one of its stages raises (flush and draw made
\* when configured), pulls at most one more frame, and does nothing with
\* that frame: no counters, no tracking, no write, flush or draw
C4_StopAfterNextPull ==
    StoppedWhileTracking =>
        LET k == stopAt.frame IN
        /\ pulled <= k + 2
        /\ pulled = k + 2 => pc \in {"check", "finally", "exit"}
        /\ last_frame_idx <= k
        /\ \A i \in DOMAIN calls : calls[i].frame <= k
        /\ \A f \in Frames : f > k => \A u \in 1..MaxRois : task[f][u] = "none"
        /\ runResult = "returned" =>
              /\ writer => Made("flush", k, NoRoi)
              /\ drawer => Made("draw", k, NoRoi)
              /\ \A u \in Units : last_positions[Roi(u)] = FrameOutcome(k, u)

C4_Witness ==
    /\ StoppedWhileTracking
    /\ stopAt.frame = 0
    /\ pulled = 2
    /\ runResult = "returned"
    /\ writer /\ drawer
    /\ NUnits >= 1

\* C5: once a frame is aggregated, the ROI of every unit that returned zero
\* records has a key in the map and its value is the empty entry
C5_ZeroRecordsEmptyEntry ==
    /\ pc \in {"agg", "write"} =>
          \A u \in 1..(j - 1) :
              res[cur][u] = "empty" => last_positions[Roi(u)] = Empty
    /\ (pc \in {"flush", "draw"} \/ (pc = "pull" /\ pulled >= 1)) =>
          \A u \in Units :
              res[cur][u] = "empty" => last_positions[Roi(u)] = Empty

C5_Witness ==
    /\ pc = "pull"
    /\ cur = 1
    /\ \E u \in Units :
          /\ res[0][u] = "rows"
          /\ res[1][u] = "empty"
          /\ last_positions[Roi(u)] = Empty

\* C6 (as claimed): with a writer, every processed frame has exactly one
\* write per ROI and exactly one flush
C6_WriteOncePerRoi ==
    writer =>
        \A k \in Frames : (FrameDone(k) /\ Recent(k)) =>
            /\ \A u \in Units : Count("write", k, Roi(u)) = 1
            /\ Count("flush", k, NoRoi) = 1

\* C6 (amended): with a writer, every processed frame has exactly one write
\* for each ROI whose unit returned records, none for a ROI whose unit
\* returned zero records, and exactly one flush
C6_WriteOncePerTrackedRoi ==
    writer =>
        \A k \in Frames :
            /\ \A u \in Units : Count("write", k, Roi(u)) <= 1
            /\ Count("flush", k, NoRoi) <= 1
            /\ (FrameDone(k) /\ Recent(k)) =>
                  /\ \A u \in Units :
                        Count("write", k, Roi(u)) =
                            IF res[k][u] = "rows" THEN 1 ELSE 0
                  /\ Count("flush", k, NoRoi) = 1

C6_Witness ==
    /\ writer
    /\ FrameDone(1)
    /\ \E u, v \in Units : res[1][u] = "empty" /\ res[1][v] = "rows"

\* position of a sink call within its frame
Rank(c) == IF c.op = "write" THEN 0 ELSE IF c.op = "flush" THEN 1 ELSE 2

Constructed == ctor # "pending"
RoisGiven == rois # NoList
StimulatorsGiven == stimulators # NoList

\* C8: n >= 1 ROIs without interactors give n units in ROI order; with
\* m # n interactors construction fails; with m = n unit i pairs ROI i with
\* interactor i; the units never change afterwards
\* C8, the state part: the outcome of construction for n >= 1 ROIs
C8_Inv ==
    (Constructed /\ RoisGiven /\ Len(rois) >= 1) =>
        /\ ~StimulatorsGiven =>
              /\ ctor = "ok"
              /\ Len(unit_trackers) = Len(rois)
              /\ \A i \in 1..Len(rois) :
                    /\ unit_trackers[i].roi = rois[i]
                    /\ unit_trackers[i].stimulator = NoStimulator
        /\ (StimulatorsGiven /\ Len(stimulators) # Len(rois)) =>
              /\ ctor = "ValueError"
              /\ pc = "no_monitor"
        /\ (StimulatorsGiven /\ Len(stimulators) = Len(rois)) =>
              /\ ctor = "ok"
              /\ Len(unit_trackers) = Len(rois)
              /\ \A i \in 1..Len(rois) :
                    /\ unit_trackers[i].roi = rois[i]
                    /\ unit_trackers[i].stimulator = stimulators[i]

C8_ConstructionAndPairing ==
    /\ []C8_Inv
    /\ [][Constructed => unit_trackers' = unit_trackers]_vars

C8_Witness ==
    /\ ctor = "ok"
    /\ StimulatorsGiven
    /\ Len(rois) = 2
    /\ rois[1] = 2
    /\ runResult = "returned"
    /\ pulled >= 1

\* C9 (as claimed): without ROIs (rois None, or an empty list) construction
\* fails
C9_NoRoisFails ==
    (Constructed /\ (rois = NoList \/ rois = <<>>)) => ctor # "ok"

\* C9 (amended): with rois None construction fails; an empty ROI list is
\* accepted when no interactors or an empty list of them is given, and gives
\* a Monitor with zero tracking units; with a non-empty interactor list it
\* fails on the count mismatch
C9_NoneFailsEmptyAccepted ==
    Constructed =>
        /\ rois = NoList => ctor = "NotImplementedError" /\ pc = "no_monitor"
        /\ (rois = <<>> /\ stimulators \in {NoList, <<>>}) =>
              ctor = "ok" /\ unit_trackers = <<>> /\ pc # "no_monitor"
        /\ (rois = <<>> /\ stimulators \notin {NoList, <<>>}) =>
              ctor = "ValueError" /\ pc = "no_monitor"

C9_Witness ==
    /\ rois = NoList
    /\ ctor = "NotImplementedError"
    /\ pc = "no_monitor"

\* ----- failures
StageErrors == {<<"CameraError">>, <<"WriteError">>, <<"FlushError">>,
                <<"DrawError">>}
TrackFailed == \E k \in Frames : \E u \in Units : res[k][u] = "raise"

\* C10, the state part: what holds once a stage has raised and once run()
\* has been left
C10_Inv ==
    /\ thrown # NoExc => pc \in {"except", "finally", "exit"}
    /\ pc = "exit" => ~is_running /\ runResult # "none"
    /\ (pc = "exit" /\ thrown # NoExc) => runResult = "raised" /\ exc = thrown
    /\ runResult = "returned" => thrown = NoExc /\ ~TrackFailed
    /\ (pc = "exit" /\ TrackFailed) =>
          /\ runResult = "raised"
          /\ \E u \in Units : exc = <<"TrackError", u>> /\ res[cur][u] = "raise"
    /\ thrown # NoExc =>
          \/ thrown \in StageErrors
          \/ \E u \in Units : thrown = <<"TrackError", u>> /\ res[cur][u] = "raise"

\* C10: a failure of the camera, a unit's tracking, write, flush or draw
\* leaves run() as that same failure; after it no frame is pulled, tracked,
\* written or drawn, and the running flag is false once run() has exited
C10_FailurePropagates ==
    /\ []C10_Inv
    /\ [][thrown # NoExc =>
            /\ thrown' = thrown
            /\ pulled' = pulled
            /\ calls' = calls
            /\ last_positions' = last_positions
            /\ last_frame_idx' = last_frame_idx
            /\ \A u \in 1..MaxRois : \A k \in Frames :
                  task[k][u] = "none" => task'[k][u] = "none"]_vars
    /\ [][runResult # "none" => is_running' = FALSE /\ exc' = exc]_vars

C10_Witness ==
    /\ runResult = "raised"
    /\ exc = <<"WriteError">>
    /\ ~is_running
    /\ pulled = 1
    /\ \E u \in Units : Made("write", 0, Roi(u))

\* C19: with no stop request and no failing stage, a source of N frames
\* is processed frame by frame, each once and in source order, and run()
\* then returns normally with the running flag false
C19_CleanExhaustion ==
    /\ (pc = "exit" /\ thrown = NoExc) => runResult = "returned"
    /\ (runResult = "returned" /\ ~force_stop) =>
          /\ ~is_running
          /\ exc = NoExc
          /\ pulled >= 1 => last_frame_idx = pulled - 1
          /\ \A k \in Frames :
                /\ k < pulled => \A u \in Units : task[k][u] = "done"
                /\ k >= pulled => \A u \in 1..MaxRois : task[k][u] = "none"
                /\ (k < pulled /\ Recent(k)) =>
                      /\ writer => Count("flush", k, NoRoi) = 1
                      /\ drawer => Count("draw", k, NoRoi) = 1
                      /\ \A u \in Units :
                            last_positions[Roi(u)] = FrameOutcome(cur, u)
          /\ \A a, b \in DOMAIN calls : a < b => calls[a].frame <= calls[b].frame

C19_Witness ==
    /\ runResult = "returned"
    /\ ~force_stop
    /\ pulled = 2
    /\ NUnits >= 2
    /\ writer /\ drawer

\* ------------------------------------------------------ interactor claims
\* C11: a failure of the hardware actuation call (deprive raising) does not
\* leave the interactor invocation: the invocation that made the call does
\* not end by raising
C11_ActuationFailureAbsorbed ==
    (kind = "SleepDep" /\ ipc = "idle" /\ hw.last = "raised")
        => ret.outcome # "raised"

C13_NonBlockingDispatch ==
    kind = "SleepDep" => ~(hw.running /\ ipc = "interact")

\* C13 (amended): a SleepDepInteractor calls deprive on the invoking thread:
\* every act decision makes one deprive call for its channel, nothing is
\* dropped, and the invocation ends only when that call has returned or
\* raised, so that the deprive calls of one interactor never overlap
C13_SynchronousDispatch ==
    /\ [](kind = "SleepDep" =>
            /\ hw.running <=> ipc = "interact"
            /\ hw.running => ret = InCall(TRUE))
    /\ [][kind = "SleepDep" =>
            /\ (ipc = "idle" /\ tracker /\ ret' # ret /\ decision'.interact) =>
                  /\ ~hw.running
                  /\ hw' = [calls |-> hw.calls + 1, running |-> TRUE,
                            channel |-> channel, last |-> "none"]
                  /\ ipc' = "interact"
            /\ hw'.calls # hw.calls =>
                  (ipc = "idle" /\ tracker /\ decision'.interact)
            /\ (ipc = "interact" /\ ipc' = "idle") =>
                  /\ hw.running /\ ~hw'.running
                  /\ hw'.calls = hw.calls
                  /\ \/ hw'.last = "returned" /\ ret' = Returned(TRUE)
                     \/ hw'.last = "raised" /\ ret'.outcome = "raised"]_vars

C13_Witness ==
    /\ kind = "SleepDep"
    /\ hw.calls = 2
    /\ hw.running
    /\ ipc = "interact"

\* C14: an invocation of an interactor that was never bound (synchronous or
\* asynchronous base) raises ValueError at once: the decision logic is not
\* run, nothing is actuated or started, the interactor's state is as it was
C14_UnboundInvocationFaults ==
    /\ [](~tracker =>
            /\ t0 = NoT0
            /\ last_active = 0
            /\ ~decision.interact
            /\ hw.calls = 0
            /\ subprocess = 0 /\ alive = {}
            /\ ipc = "idle"
            /\ ret.outcome \in {"none", "raised"})
    /\ [][(~tracker /\ ~tracker' /\ nrec' = nrec) =>
            /\ ret' = Raised("ValueError", FALSE)
            /\ UNCHANGED <<t0, last_active, decision, hw, subprocess, alive,
                           ipc, evals, positions, times, target, channel>>]_vars

C14_Witness ==
    /\ kind = "SleepDep"
    /\ ~tracker
    /\ nrec >= 2
    /\ Stationary(positions)
    /\ ret = Raised("ValueError", FALSE)

\* the squared displacement between the two most recent records, the latest
\* timestamp, and what "no action" means for one evaluation
C15_Disp2 ==
    (positions[Len(positions)].x - positions[Len(positions) - 1].x)
       * (positions[Len(positions)].x - positions[Len(positions) - 1].x)
    + (positions[Len(positions)].y - positions[Len(positions) - 1].y)
       * (positions[Len(positions)].y - positions[Len(positions) - 1].y)
C15_Now == times[Len(times)]
C15_NoAction ==
    /\ decision' = [interact |-> FALSE, result |-> <<channel>>]
    /\ ret' = Returned(FALSE)
    /\ ipc' = "idle"
    /\ hw' = hw

\* C15: one evaluation of a bound SleepDepInteractor is (a) fewer than 2
\* records: no action, t0 unchanged; (b) displacement < 0.01 and t0 unset:
\* t0 := latest timestamp, no action; (c) displacement < 0.01, t0 set and
\* latest timestamp - t0 > 90: t0 := unset, act with {channel};
\* (d) displacement < 0.01, t0 set and latest timestamp - t0 <= 90: no
\* action, t0 unchanged; (e) displacement >= 0.01: t0 := unset, no action
C15_TransitionFunction ==
    [][(kind = "SleepDep" /\ tracker /\ tracker' /\ ipc = "idle"
           /\ nrec' = nrec) =>
         /\ nrec < 2 => (C15_NoAction /\ t0' = t0)
         /\ (nrec >= 2 /\ C15_Disp2 < 100 /\ t0 = NoT0) =>
               (C15_NoAction /\ t0' = C15_Now)
         /\ (nrec >= 2 /\ C15_Disp2 < 100 /\ t0 # NoT0 /\ C15_Now - t0 > 90) =>
               /\ t0' = NoT0
               /\ decision' = [interact |-> TRUE, result |-> <<channel>>]
               /\ ipc' = "interact"
         /\ (nrec >= 2 /\ C15_Disp2 < 100 /\ t0 # NoT0 /\ C15_Now - t0 <= 90) =>
               (C15_NoAction /\ t0' = t0)
         /\ (nrec >= 2 /\ C15_Disp2 >= 100) =>
               (C15_NoAction /\ t0' = NoT0)]_vars

C15_Witness ==
    /\ kind = "SleepDep"
    /\ ipc = "interact"
    /\ decision = [interact |-> TRUE, result |-> <<channel>>]
    /\ t0 = NoT0
    /\ C15_Disp2 < 100

\* C16 (as claimed): evaluated once per appended record, a SleepDepInteractor
\* fires at most once while the animal stays stationary
C16_OncePerStationaryRun ==
    (kind = "SleepDep" /\ evals.order # "broken") => evals.fires <= 1

\* C16 (amended): a SleepDepInteractor fires only when its timer is set and
\* more than 90 s old, and firing unsets the timer; the next stationary
\* evaluation restarts it, so that it never fires on an evaluation whose
\* timer was unset, two firings are more than 90 s apart, and it fires again
\* while the animal stays stationary; an evaluation that sees movement
\* unsets the timer
C16_OncePerTimerPeriod ==
    /\ [](kind = "SleepDep" =>
            /\ t0 # NoT0 => (nrec >= 2 /\ t0 <= C15_Now /\ t0 >= evals.fired_at)
            /\ evals.fires >= 1 => evals.fired_at # NoT0)
    /\ [][(kind = "SleepDep" /\ tracker /\ tracker' /\ ipc = "idle"
              /\ nrec' = nrec) =>
            /\ decision'.interact =>
                  /\ t0 # NoT0
                  /\ C15_Now - t0 > 90
                  /\ t0' = NoT0
                  /\ evals.fired_at # NoT0 => C15_Now - evals.fired_at > 90
                  /\ evals'.fired_at = C15_Now
            /\ t0 = NoT0 => ~decision'.interact
            /\ (nrec >= 2 /\ C15_Disp2 >= 100) =>
                  (t0' = NoT0 /\ evals'.fires = 0)]_vars

C16_Witness ==
    /\ kind = "SleepDep"
    /\ evals.order = "evaluated"
    /\ evals.fires = 2
    /\ t0 = NoT0

\* a SleepDepInteractor evaluated once per appended record from an empty
\* history has just been evaluated on its second record; the first two
\* records are closer than 0.01 and more than 90 s apart
C17_SecondRecordEvaluated ==
    /\ kind = "SleepDep"
    /\ evals.order = "evaluated"
    /\ nrec = 2
    /\ C15_Disp2 < 100
    /\ times[2] - times[1] > 90

\* C17 (as claimed): the evaluation on the second record fires act with
\* {channel} and leaves t0 unset
C17_FiresOnSecondRecord ==
    C17_SecondRecordEvaluated =>
        /\ decision = [interact |-> TRUE, result |-> <<channel>>]
        /\ t0 = NoT0

\* C17 (amended): the evaluation on the second record does not fire: it
\* starts the timer at the second record's timestamp; the interactor fires,
\* and unsets t0, on the evaluation of the third record when that record is
\* again closer than 0.01 to its predecessor and more than 90 s later
C17_TimerStartsOnSecondRecord ==
    /\ [](C17_SecondRecordEvaluated =>
            /\ decision = [interact |-> FALSE, result |-> <<channel>>]
            /\ t0 = times[2]
            /\ ret = Returned(FALSE)
            /\ hw.calls = 0)
    /\ [][(kind = "SleepDep" /\ evals.order = "fresh" /\ nrec = 3 /\ tracker
             /\ nrec' = nrec /\ t0 = times[1] /\ C15_Disp2 < 100
             /\ times[2] - times[1] > 90) =>
            /\ decision' = [interact |-> TRUE, result |-> <<channel>>]
            /\ t0' = NoT0
            /\ hw'.calls = 1]_vars

C17_Witness ==
    /\ C17_SecondRecordEvaluated
    /\ times = <<0, 95>>
    /\ positions[1].x = 0 /\ positions[1].y = 0
    /\ positions[2].x = 1 /\ positions[2].y = 1
    /\ t0 = 95

\* the distance a metric value stands for, as numerator and denominator
C18_Decoded(m) ==
    CASE m = 3000 -> <<1000, 1>>
      [] m = -2000 -> <<1, 100>>
      [] m = -3000 -> <<1, 1000>>
      [] m = -4000 -> <<1, 10000>>
C18_Moving ==
    LET d == C18_Decoded(positions[Len(positions)].xy_dist_log10x1000)
    IN d[1] * 10000 > 25 * d[2]

\* C18: an evaluation of a bound IsMovingInteractor reports "not interacted"
\* with fewer than 2 records (last_active unchanged); otherwise, with d
\* decoded from the latest xy_dist_log10x1000, d > 0.0025 reports "not
\* interacted" and sets last_active to the latest timestamp, d <= 0.0025
\* reports "interacted" and leaves last_active unchanged; the interactor
\* never calls the hardware interface and never starts a process
C18_Classification ==
    /\ [](kind = "IsMoving" =>
            (hw.calls = 0 /\ ~hw.running /\ subprocess = 0 /\ alive = {}))
    /\ [][(kind = "IsMoving" /\ tracker /\ tracker' /\ ipc = "idle"
              /\ nrec' = nrec) =>
            /\ nrec < 2 =>
                  /\ ~decision'.interact
                  /\ ret' = Returned(FALSE)
                  /\ last_active' = last_active
            /\ (nrec >= 2 /\ C18_Moving) =>
                  /\ ~decision'.interact
                  /\ ret' = Returned(FALSE)
                  /\ last_active' = C15_Now
            /\ (nrec >= 2 /\ ~C18_Moving) =>
                  /\ decision'.interact
                  /\ last_active' = last_active]_vars
    /\ [][(kind = "IsMoving" /\ ipc = "interact") =>
            (ret' = Returned(TRUE) /\ last_active' = last_active)]_vars

C18_Witness ==
    /\ kind = "IsMoving"
    /\ nrec >= 3
    /\ positions[1].xy_dist_log10x1000 = 3000
    /\ positions[2].xy_dist_log10x1000 = -4000
    /\ last_active = times[1]
    /\ last_active > 0
    /\ ret = Returned(TRUE)

\* ------------------------------------------------------------ copy claims
\* C20: a copy into an output that already has the table with r rows
\* inserts exactly the input rows after the first r, in order, whatever the
\* batch size; the output equals the input when the input only grew, and a
\* repeated copy of an unchanged input adds no rows
C20_IncrementalCopy ==
    (cpc = "idle" /\ last.outcome = "copied" /\ last.existed) =>
        /\ outRows = last.before \o Offset(last.selected, Len(last.before))
        /\ (Len(last.before) <= Len(last.selected)
              /\ last.before = SubSeq(last.selected, 1, Len(last.before)))
                 => outRows = last.selected
        /\ last.before = last.selected => outRows = last.before

\* ------------------------------------------------ Monitor claims, continued
\* C21: when a unit's track raises while frame k is tracked, no entry of the
\* last-positions map is changed for frame k (every ROI keeps frame k-1's
\* outcome) and no write, flush or draw is made for frame k, also for the
\* ROIs whose tracking succeeded
C21_TrackFailureFailsFrame ==
    \A k \in Frames :
        (\E u \in Units : task[k][u] = "failed") =>
            /\ k = cur
            /\ pc \in {"map", "except", "finally", "exit"}
            /\ \A u \in Units : last_positions[Roi(u)] = PrevOutcome(k, u)
            /\ \A i \in DOMAIN calls : calls[i].frame # k

C21_Witness ==
    /\ pc = "exit"
    /\ runResult = "raised"
    /\ writer /\ drawer
    /\ cur = 1
    /\ NUnits >= 2
    /\ task[1][1] = "done" /\ res[1][1] = "rows"
    /\ task[1][2] = "failed"
    /\ last_positions[Roi(1)] = [roi |-> Roi(1), frame |-> 0]
    /\ Made("write", 0, Roi(1))

\* the place in the unit list of the unit tracking ROI r
UnitOf(r) == CHOOSE u \in Units : Roi(u) = r

C22_Inv ==
    /\ pc \in {"agg", "write"} =>
          /\ \A u \in Units : task[cur][u] = "done"
          /\ UpdatedUpTo(IF pc = "write" THEN j ELSE j - 1)
    /\ \A a, b \in DOMAIN calls :
          (a < b /\ calls[a].op = "write" /\ calls[b].op = "write"
             /\ calls[a].frame = calls[b].frame) =>
                UnitOf(calls[a].roi) < UnitOf(calls[b].roi)
    /\ pc = "write" =>
          \A i \in DOMAIN calls :
              (calls[i].op = "write" /\ calls[i].frame = cur) =>
                  UnitOf(calls[i].roi) < j

\* C22: the results of a frame are aggregated in the order of the unit
\* list, whatever the order in which the pool threads ended their track
\* calls: the map entries are set unit by unit from the first, each from its
\* own unit's result, and the write calls of a frame follow the unit list
C22_DeterministicCollection ==
    /\ []C22_Inv
    /\ [][\A u \in Units :
             last_positions'[Roi(u)] # last_positions[Roi(u)] =>
                /\ pc = "agg"
                /\ last_positions'[Roi(u)] = FrameOutcome(cur, u)
                /\ \A v \in 1..(u - 1) :
                      last_positions[Roi(v)] = FrameOutcome(cur, v)]_vars

C22_Witness ==
    /\ outOfOrder
    /\ pc = "write"
    /\ j = 2
    /\ NUnits >= 2
    /\ Made("write", cur, Roi(1))
    /\ last_positions[Roi(1)] = [roi |-> Roi(1), frame |-> cur]

C23_Inv ==
    /\ \A u \in Units : Cardinality({k \in Frames : task[k][u] = "running"}) <= 1
    /\ \A k \in Frames : \A u \in 1..MaxRois :
          task[k][u] # "none" =>
             /\ u \in Units
             /\ k <= last_frame_idx
             /\ k < cur => task[k][u] = "done"
             /\ (k = cur /\ Started(k, u)) =>
                   handed[u] = t /\ last_time_stamp = t /\ last_frame_idx = k
    /\ pc \in {"agg", "write", "flush", "draw"} =>
          \A u \in Units : task[cur][u] = "done" /\ handed[u] = t
    /\ \A u, v \in Units :
          (pulled > 0 /\ ~Started(cur, u) /\ ~Started(cur, v)) =>
              handed[u] = handed[v]

\* C23: for every frame that passes the stop check each unit's track is
\* called once, with that frame's timestamp, and never while another track
\* call of the same unit is executing; the timestamps a unit is handed are
\* those of the processed frames, in the order of the source
C23_PerUnitCallSequence ==
    /\ []C23_Inv
    /\ [][\A k \in Frames : \A u \in 1..MaxRois :
             /\ (task'[k][u] = "queued" /\ task[k][u] # "queued") =>
                   task[k][u] = "none" /\ pc = "dispatch" /\ k = cur
                      /\ last_frame_idx = k
             /\ (task'[k][u] = "running" /\ task[k][u] # "running") =>
                   task[k][u] = "queued" /\ k = cur /\ handed'[u] = t
             /\ task[k][u] \in {"done", "failed"} => task'[k][u] = task[k][u]
             /\ handed'[u] # handed[u] =>
                   task[cur][u] = "queued" /\ task'[cur][u] = "running"]_vars

C23_Witness ==
    /\ cur = 1
    /\ NUnits >= 2
    /\ pc = "map"
    /\ task[0][1] = "done" /\ task[0][2] = "done"
    /\ task[1][1] = "running" /\ task[1][2] = "queued"
    /\ handed[1] = 1500 /\ handed[2] = 0
    /\ t = 1500

\* a track call of the pool is waiting or executing
TrackPending == \E k \in Frames : \E u \in 1..MaxRois :
                    task[k][u] \in {"queued", "running"}

\* C24: no entry of the Last-Positions Map is written while a track call of
\* the frame is still executing in the pool; every write is made by the run
\* loop in its aggregation, after the pool's map call has returned
C24_SingleWriterAfterBarrier ==
    /\ [](pc \in {"agg", "write", "flush", "draw"} => ~TrackPending)
    /\ [][last_positions' # last_positions =>
             /\ pc = "agg"
             /\ pc' \in {"agg", "write"}
             /\ ~TrackPending
             /\ task' = task]_vars

C24_Witness ==
    /\ pc = "agg"
    /\ cur = 1
    /\ j = 2
    /\ NUnits >= 2
    /\ ~TrackPending
    /\ last_positions[Roi(1)] = [roi |-> Roi(1), frame |-> 1]
    /\ last_positions[Roi(2)] = [roi |-> Roi(2), frame |-> 0]

\* the milliseconds a value of the property last_time_stamp stands for
Millis(sec) == sec.whole * 1000 + sec.thousandths

\* the frame pulled last has passed the stop check
PassedCheck == pc \in {"settime", "dispatch", "map", "agg", "write", "flush", "draw"}

\* the timestamp of the frame tracked last, 0 before any
TrackedTimeStamp == IF trackerFrame = NoFrame THEN 0 ELSE trackerFrame

\* C25 as stated: at any time both counters describe the most recent frame
\* that passed the stop check
C25_AtAnyTime ==
    PassedCheck => last_frame_idx = cur /\ Millis(LastTimeStampSeconds) = t

C25_Inv ==
    /\ (trackerFrame = NoFrame /\ ~PassedCheck) =>
          last_frame_idx = 0 /\ LastTimeStampSeconds = [whole |-> 0, thousandths |-> 0]
    /\ pc \in {"dispatch", "map", "agg", "write", "flush", "draw"} =>
          last_frame_idx = cur /\ Millis(LastTimeStampSeconds) = t
    /\ pc = "settime" =>
          last_frame_idx = cur /\ Millis(LastTimeStampSeconds) = TrackedTimeStamp
    /\ pc # "dispatch" => Millis(LastTimeStampSeconds) = TrackedTimeStamp
    /\ pc = "check" => last_frame_idx = (IF cur = 0 THEN 0 ELSE cur - 1)
    /\ last_frame_idx <= (IF cur < 0 THEN 0 ELSE cur)

\* C25, amended: the two counters are assigned one after the other once a
\* frame has passed the stop check and before its tracking is dispatched;
\* from the second assignment on they are the index of that frame and its
\* timestamp in seconds, between the two last_time_stamp is still that of
\* the frame before; last_frame_idx never decreases and a frame pulled
\* while the stop flag is set changes neither
C25_CountersFollowFrames ==
    /\ []C25_Inv
    /\ [][/\ last_frame_idx' # last_frame_idx =>
                /\ pc = "check" /\ ~force_stop
                /\ last_frame_idx' = cur
                /\ last_frame_idx' > last_frame_idx
          /\ last_time_stamp' # last_time_stamp =>
                /\ pc = "settime" /\ pc' = "dispatch"
                /\ Millis(LastTimeStampSeconds') = t
          /\ (pc = "check" /\ force_stop) =>
                last_frame_idx' = last_frame_idx /\ last_time_stamp' = last_time_stamp
          /\ pc' = "map" /\ pc # "map" =>
                last_frame_idx = cur /\ Millis(LastTimeStampSeconds) = t]_vars

C25_Witness ==
    /\ pc = "map"
    /\ cur = 1
    /\ last_frame_idx = 1
    /\ LastTimeStampSeconds = [whole |-> 1, thousandths |-> 500]
    /\ trackerFrame = 1500
    /\ force_stop

\* no track call is queued by the step
NothingDispatched ==
    \A k \in Frames : \A u \in 1..MaxRois :
        task'[k][u] = "queued" => task[k][u] = "queued"

\* the step leaves the map, the counters and the sinks alone
NothingProcessed ==
    /\ NothingDispatched
    /\ last_positions' = last_positions
    /\ last_frame_idx' = last_frame_idx
    /\ last_time_stamp' = last_time_stamp
    /\ trackerFrame' = trackerFrame
    /\ calls' = calls

C26_Inv ==
    runs.stopped =>
        /\ force_stop
        /\ pc \in {"pull", "check", "except", "finally", "exit"}
        /\ pulled <= runs.from + 1
        /\ pulled = runs.from + 1 => pc \in {"check", "finally", "exit"}
        /\ pc = "except" => pulled = runs.from
        /\ pc = "exit" =>
              ~is_running /\ (runResult = "raised" => pulled = runs.from)

\* C26: no operation clears the stop flag; once it is set no further frame
\* passes the stop check, so only the frame that had passed it is still
\* processed; a run() called while the flag is set (the first run
\* included) dispatches, writes and draws nothing, leaves the map and the
\* counters as they were, pulls at most one frame and returns once the
\* camera has yielded that frame or is exhausted
C26_StopIsSticky ==
    /\ []C26_Inv
    /\ [][force_stop =>
             /\ force_stop'
             /\ last_frame_idx' = last_frame_idx
             /\ pc = "check" => pc' \in {"check", "finally"}
             /\ \A k \in Frames : \A u \in 1..MaxRois :
                   task'[k][u] # task[k][u] => k = last_frame_idx
             /\ Len(calls') > Len(calls) =>
                   calls'[Len(calls')].frame = last_frame_idx]_vars
    /\ [][runs'.stopped => NothingProcessed]_vars
    /\ ((runs.stopped /\ is_running) ~> ~is_running)

C26_Witness ==
    /\ runs = [n |-> 2, stopped |-> TRUE, from |-> 1]
    /\ pc = "exit"
    /\ runResult = "returned"
    /\ pulled = 2
    /\ last_frame_idx = 0
    /\ NUnits >= 1
    /\ \A u \in Units : task[0][u] = "done" /\ task[1][u] = "none"

\* ----------------------------------------------- interactor claims, continued
\* the step is an evaluation of a bound SleepDepInteractor
C27_Evaluation ==
    /\ kind = "SleepDep"
    /\ tracker /\ tracker'
    /\ ipc = "idle"
    /\ nrec' = nrec

\* C27: a SleepDepInteractor never returns act on two evaluations in a row,
\* the latest-record timestamps of two evaluations that return act are
\* more than inactivity_time_threshold apart, and t0 is unset whenever the
\* latest evaluation returned act
C27_MinimumSpacing ==
    /\ [](kind = "SleepDep" =>
            /\ decision.interact => t0 = NoT0
            /\ ipc = "interact" => decision.interact)
    /\ [][C27_Evaluation =>
            /\ decision.interact => ~decision'.interact
            /\ decision'.interact =>
                  /\ t0' = NoT0
                  /\ evals'.fired_at = times[Len(times)]
                  /\ evals.fired_at # NoT0 =>
                        times[Len(times)] - evals.fired_at
                            > inactivity_time_threshold]_vars

C27_Witness ==
    /\ kind = "SleepDep"
    /\ ipc = "interact"
    /\ decision.interact
    /\ nrec = 5
    /\ evals.fires >= 2
    /\ evals.fired_at = times[Len(times)]
    /\ t0 = NoT0
====
